---- MODULE Spec2Model ----
(***************************************************************************)
(* Model of the two-column classifier of src/visualizer-test.py:           *)
(* _is_likely_spanning_box and detect_two_columns.                          *)
(*                                                                         *)
(* A bounding box is the tuple <<x_start, y_start, x_end, y_end>> of       *)
(* integer pixel coordinates.  The source computes in floating point;      *)
(* every quantity it compares is a multiple of 1/4 or a product with a     *)
(* decimal threshold, so the model keeps exact integers by scaling both    *)
(* sides of each comparison (x-centers by 2, gap midpoints by 4, ratios    *)
(* by their denominators).                                                 *)
(***************************************************************************)
EXTENDS Integers, Sequences, FiniteSets, TLC

VARIABLES
    pc,                  \* "call" before the function runs, "return" after
    layout,              \* the dict handed to detect_two_columns
    text_bbox,           \* argument of _is_likely_spanning_box
    layout_bbox,         \* argument of _is_likely_spanning_box
    result,              \* the value returned
    raised,              \* TRUE when the call ended in an exception
    return_line,         \* source line of the return statement taken
    non_spanning_boxes,  \* local of detect_two_columns at return
    left_column_boxes,   \* local of detect_two_columns at return
    right_column_boxes   \* local of detect_two_columns at return

vars == <<pc, layout, text_bbox, layout_bbox, result, raised, return_line,
          non_spanning_boxes, left_column_boxes, right_column_boxes>>

(***************************************************************************)
(* Module-level thresholds (ratios as numerator / denominator).            *)
(***************************************************************************)
SPANNING_BOX_WIDTH_RATIO_THRESHOLD_NUM == 7
SPANNING_BOX_WIDTH_RATIO_THRESHOLD_DEN == 10
ABSOLUTE_SPANNING_WIDTH_THRESHOLD == 700
MIN_BOXES_FOR_COLUMN_CONSIDERATION == 4
MIN_BOXES_PER_DETECTED_COLUMN == 2
GUTTER_SEARCH_RANGE_LAYOUT_RATIO_MIN_NUM == 1
GUTTER_SEARCH_RANGE_LAYOUT_RATIO_MAX_NUM == 3
GUTTER_SEARCH_RANGE_LAYOUT_RATIO_DEN == 4
ALLOWED_INTER_COLUMN_MEDIAN_OVERLAP == 20
MIN_COLUMN_HEIGHT_LAYOUT_RATIO_NUM == 3
MIN_COLUMN_HEIGHT_LAYOUT_RATIO_DEN == 10
MIN_VERTICAL_OVERLAP_RATIO_OF_SHORTER_COLUMN_NUM == 2
MIN_VERTICAL_OVERLAP_RATIO_OF_SHORTER_COLUMN_DEN == 5
MIN_LAYOUT_HEIGHT_FOR_TWO_COLUMN == 300
MIN_LAYOUT_WIDTH_FOR_TWO_COLUMN == 200

(***************************************************************************)
(* Small helpers for Python built-ins.                                     *)
(***************************************************************************)
Min2(a, b) == IF a <= b THEN a ELSE b
Max2(a, b) == IF a >= b THEN a ELSE b

\* min(...) / max(...) over a non-empty sequence of integers
MinOf(s) == CHOOSE v \in {s[i] : i \in DOMAIN s} : \A i \in DOMAIN s : v <= s[i]
MaxOf(s) == CHOOSE v \in {s[i] : i \in DOMAIN s} : \A i \in DOMAIN s : v >= s[i]

\* [b[k] for b in boxes]
Column(boxes, k) == [i \in DOMAIN boxes |-> boxes[i][k]]

\* dict.get(key): None when the key is absent
Get(d, key) ==
    IF key \in DOMAIN d THEN [none |-> FALSE, val |-> d[key]]
    ELSE [none |-> TRUE, val |-> <<>>]

\* Python truthiness test "not x" for a value that is None or a list
Not(x) == x.none \/ x.val = <<>>

(***************************************************************************)
(* _is_likely_spanning_box(text_bbox, layout_bbox), lines 33-54.           *)
(* "box_width / layout_width > 0.7" is cross-multiplied; the sign of       *)
(* layout_width decides the direction of the inequality.                   *)
(***************************************************************************)
RatioAboveThreshold(box_width, layout_width) ==
    IF layout_width > 0
    THEN box_width * SPANNING_BOX_WIDTH_RATIO_THRESHOLD_DEN
             > SPANNING_BOX_WIDTH_RATIO_THRESHOLD_NUM * layout_width
    ELSE box_width * SPANNING_BOX_WIDTH_RATIO_THRESHOLD_DEN
             < SPANNING_BOX_WIDTH_RATIO_THRESHOLD_NUM * layout_width

\* mutant: the absolute-width rule (condition 2) is forgotten
IsLikelySpanningBoxRatioOnly(tb, lb) ==
    LET box_width == tb[3] - tb[1]
        layout_width == lb[3] - lb[1]
    IN  IF layout_width = 0 THEN FALSE
        ELSE RatioAboveThreshold(box_width, layout_width)

IsLikelySpanningBox(tb, lb) ==
    LET box_width == tb[3] - tb[1]
        layout_width == lb[3] - lb[1]
    IN  IF layout_width = 0 THEN FALSE
        ELSE IF RatioAboveThreshold(box_width, layout_width) THEN TRUE
        ELSE IF box_width > ABSOLUTE_SPANNING_WIDTH_THRESHOLD THEN TRUE
        ELSE FALSE

(***************************************************************************)
(* detect_two_columns, lines 57-177, stage by stage.                       *)
(***************************************************************************)

\* line 72: if not layout_bbox or not text_bboxes
\* mutant: only the layout bbox is tested
MissingInputLayoutOnly(l) == Not(Get(l, "bbox_layout"))

MissingInput(l) == Not(Get(l, "bbox_layout")) \/ Not(Get(l, "bbox_text"))

\* line 79: if layout_height < 300 or layout_width < 200
\* mutant: the height test is dropped
LayoutTooSmallWidthOnly(lb) ==
    (lb[3] - lb[1]) < MIN_LAYOUT_WIDTH_FOR_TWO_COLUMN

LayoutTooSmall(lb) ==
    LET layout_width == lb[3] - lb[1]
        layout_height == lb[4] - lb[2]
    IN  layout_height < MIN_LAYOUT_HEIGHT_FOR_TWO_COLUMN
            \/ layout_width < MIN_LAYOUT_WIDTH_FOR_TWO_COLUMN

\* lines 83-86: the boxes the spanning filter lets through, in input order
\* mutant: the filter is skipped
NonSpanningBoxesUnfiltered(text_bboxes, lb) == text_bboxes

NonSpanningBoxes(text_bboxes, lb) ==
    SelectSeq(text_bboxes, LAMBDA bbox : ~IsLikelySpanningBox(bbox, lb))

\* line 96, doubled: 2 * center_x
Cx2(bbox) == bbox[1] + bbox[3]

\* line 100: sorted(centered_boxes, key=cx) -- a stable sort
RECURSIVE InsertByCx(_, _)
InsertByCx(sorted, bbox) ==
    IF sorted = <<>> THEN <<bbox>>
    ELSE IF Cx2(sorted[Len(sorted)]) <= Cx2(bbox) THEN Append(sorted, bbox)
    ELSE Append(InsertByCx(SubSeq(sorted, 1, Len(sorted) - 1), bbox),
                sorted[Len(sorted)])

\* mutant: the boxes are left in input order
SortedBoxesByCxUnsorted(boxes) == boxes

RECURSIVE SortedBoxesByCx(_)
SortedBoxesByCx(boxes) ==
    IF boxes = <<>> THEN <<>>
    ELSE InsertByCx(SortedBoxesByCx(SubSeq(boxes, 1, Len(boxes) - 1)),
                    boxes[Len(boxes)])

\* mutant: the search band ends at the middle of the layout
GutterCandidateHalfBand(sorted, i, lb) ==
    LET layout_width == lb[3] - lb[1]
        gap_center_midpoint4 == Cx2(sorted[i]) + Cx2(sorted[i + 1])
        gap_width_centers2 == Cx2(sorted[i + 1]) - Cx2(sorted[i])
    IN  /\ 4 * lb[1] + layout_width <= gap_center_midpoint4
        /\ gap_center_midpoint4 <= 4 * lb[1] + 2 * layout_width
        /\ gap_width_centers2 > 0

\* lines 113-116: the gap between sorted[i] and sorted[i+1] (1-based i) is a
\* candidate; midpoint and band are multiplied by 4, the gap width by 2
GutterCandidate(sorted, i, lb) ==
    LET layout_width == lb[3] - lb[1]
        gap_center_midpoint4 == Cx2(sorted[i]) + Cx2(sorted[i + 1])
        gap_width_centers2 == Cx2(sorted[i + 1]) - Cx2(sorted[i])
        min_gutter_x4 == GUTTER_SEARCH_RANGE_LAYOUT_RATIO_DEN * lb[1]
                           + layout_width * GUTTER_SEARCH_RANGE_LAYOUT_RATIO_MIN_NUM
        max_gutter_x4 == GUTTER_SEARCH_RANGE_LAYOUT_RATIO_DEN * lb[1]
                           + layout_width * GUTTER_SEARCH_RANGE_LAYOUT_RATIO_MAX_NUM
    IN  /\ min_gutter_x4 <= gap_center_midpoint4
        /\ gap_center_midpoint4 <= max_gutter_x4
        /\ gap_width_centers2 > 0

\* lines 102-121: potential_gutters, in increasing split_index; split_index
\* is the 0-based index of the source
PotentialGutters(sorted, lb) ==
    LET all == [i \in 1..(Len(sorted) - 1) |->
                   [gutter_x_candidate4 |-> Cx2(sorted[i]) + Cx2(sorted[i + 1]),
                    gap_width_centers2 |-> Cx2(sorted[i + 1]) - Cx2(sorted[i]),
                    split_index |-> i - 1]]
    IN  SelectSeq(all, LAMBDA g : GutterCandidate(sorted, g.split_index + 1, lb))

\* mutant: the smallest gap is taken
BestGutterCandidateMin(potential_gutters) ==
    potential_gutters[
        CHOOSE i \in DOMAIN potential_gutters :
            /\ \A j \in DOMAIN potential_gutters :
                   potential_gutters[j].gap_width_centers2
                       >= potential_gutters[i].gap_width_centers2
            /\ \A j \in DOMAIN potential_gutters :
                   j < i => potential_gutters[j].gap_width_centers2
                                > potential_gutters[i].gap_width_centers2]

\* line 128: max(potential_gutters, key=gap_width_centers) -- the first maximum
BestGutterCandidate(potential_gutters) ==
    potential_gutters[
        CHOOSE i \in DOMAIN potential_gutters :
            /\ \A j \in DOMAIN potential_gutters :
                   potential_gutters[j].gap_width_centers2
                       <= potential_gutters[i].gap_width_centers2
            /\ \A j \in DOMAIN potential_gutters :
                   j < i => potential_gutters[j].gap_width_centers2
                                < potential_gutters[i].gap_width_centers2]

\* the values of a sequence in ascending order
RECURSIVE SortInts(_)
SortInts(s) ==
    IF s = <<>> THEN <<>>
    ELSE LET i == CHOOSE k \in DOMAIN s : \A j \in DOMAIN s : s[k] <= s[j]
         IN  <<s[i]>> \o SortInts(SubSeq(s, 1, i - 1) \o SubSeq(s, i + 1, Len(s)))

\* np.median, doubled: the middle value, or the mean of the two middle values
Median2(values) ==
    LET srt == SortInts(values)
        n == Len(srt)
    IN  IF n % 2 = 1 THEN 2 * srt[(n + 1) \div 2]
        ELSE srt[n \div 2] + srt[n \div 2 + 1]

\* lines 143-146: median_x_start_right - median_x_end_left < -20
HorizontalSeparationFails(left, right) ==
    Median2(Column(right, 1)) - Median2(Column(left, 3))
        < -(2 * ALLOWED_INTER_COLUMN_MEDIAN_OVERLAP)

\* lines 154-161: top of the topmost box to bottom of the bottommost box
ColumnHeight(boxes) == MaxOf(Column(boxes, 4)) - MinOf(Column(boxes, 2))

\* lines 163-164: height_X < layout_height * 0.3
ColumnTooShort(boxes, lb) ==
    ColumnHeight(boxes) * MIN_COLUMN_HEIGHT_LAYOUT_RATIO_DEN
        < (lb[4] - lb[2]) * MIN_COLUMN_HEIGHT_LAYOUT_RATIO_NUM

\* line 168
VerticalOverlapAmount(left, right) ==
    Max2(0, Min2(MaxOf(Column(left, 4)), MaxOf(Column(right, 4)))
              - Max2(MinOf(Column(left, 2)), MinOf(Column(right, 2))))

\* mutant: the vertical-overlap test is dropped
VerticalCohesionFailsNever(left, right) == FALSE

\* lines 169-175: the test that makes the function return False
VerticalCohesionFails(left, right) ==
    LET vertical_overlap_amount == VerticalOverlapAmount(left, right)
        shorter_column_height == Min2(ColumnHeight(left), ColumnHeight(right))
    IN  IF shorter_column_height = 0 THEN vertical_overlap_amount = 0
        ELSE IF shorter_column_height > 0
        THEN vertical_overlap_amount * MIN_VERTICAL_OVERLAP_RATIO_OF_SHORTER_COLUMN_DEN
                 < MIN_VERTICAL_OVERLAP_RATIO_OF_SHORTER_COLUMN_NUM * shorter_column_height
        ELSE vertical_overlap_amount * MIN_VERTICAL_OVERLAP_RATIO_OF_SHORTER_COLUMN_DEN
                 > MIN_VERTICAL_OVERLAP_RATIO_OF_SHORTER_COLUMN_NUM * shorter_column_height

\* what a call leaves behind: the returned value (or the exception), the
\* line of the return statement, and the locals the claims speak about
Return(value, line, nsb, left, right) ==
    [value |-> value, raised |-> FALSE, line |-> line,
     non_spanning_boxes |-> nsb,
     left_column_boxes |-> left, right_column_boxes |-> right]

Raise(line) ==
    [value |-> FALSE, raised |-> TRUE, line |-> line,
     non_spanning_boxes |-> <<>>,
     left_column_boxes |-> <<>>, right_column_boxes |-> <<>>]

\* lines 132-177, once the gutter is known (the test of line 152 repeats
\* the one of lines 138-139 and is never taken)
ValidateColumns(sorted, nsb, lb, split_idx) ==
    LET left == SubSeq(sorted, 1, split_idx + 1)
        right == SubSeq(sorted, split_idx + 2, Len(sorted))
    IN  IF Len(left) < MIN_BOXES_PER_DETECTED_COLUMN
           \/ Len(right) < MIN_BOXES_PER_DETECTED_COLUMN
        THEN Return(FALSE, 140, nsb, left, right)
        ELSE IF HorizontalSeparationFails(left, right)
        THEN Return(FALSE, 148, nsb, left, right)
        ELSE IF ColumnTooShort(left, lb) \/ ColumnTooShort(right, lb)
        THEN Return(FALSE, 165, nsb, left, right)
        ELSE IF VerticalCohesionFails(left, right)
        THEN Return(FALSE, 175, nsb, left, right)
        ELSE Return(TRUE, 177, nsb, left, right)

\* detect_two_columns(layout)
DetectTwoColumns(l) ==
    IF MissingInput(l) THEN Return(FALSE, 73, <<>>, <<>>, <<>>)
    ELSE
    LET lbg == Get(l, "bbox_layout")
        tbg == Get(l, "bbox_text")
    IN  \* line 75: unpacking None or a list that has not four items raises
        IF lbg.none \/ Len(lbg.val) # 4 THEN Raise(75)
        ELSE IF LayoutTooSmall(lbg.val) THEN Return(FALSE, 80, <<>>, <<>>, <<>>)
        \* line 84: iterating over None raises
        ELSE IF tbg.none THEN Raise(84)
        ELSE
        LET lb == lbg.val
            nsb == NonSpanningBoxes(tbg.val, lb)
        IN  IF Len(nsb) < MIN_BOXES_FOR_COLUMN_CONSIDERATION
            THEN Return(FALSE, 89, nsb, <<>>, <<>>)
            ELSE
            LET sorted_boxes_by_cx == SortedBoxesByCx(nsb)
                potential_gutters == PotentialGutters(sorted_boxes_by_cx, lb)
            IN  IF potential_gutters = <<>>
                THEN Return(FALSE, 124, nsb, <<>>, <<>>)
                ELSE ValidateColumns(sorted_boxes_by_cx, nsb, lb,
                         BestGutterCandidate(potential_gutters).split_index)

(***************************************************************************)
(* The calls.  One action is one whole call of the function.               *)
(***************************************************************************)
DetectTwoColumnsCall ==
    /\ pc = "call"
    /\ LET r == DetectTwoColumns(layout)
       IN  /\ result' = r.value
           /\ raised' = r.raised
           /\ return_line' = r.line
           /\ non_spanning_boxes' = r.non_spanning_boxes
           /\ left_column_boxes' = r.left_column_boxes
           /\ right_column_boxes' = r.right_column_boxes
    /\ pc' = "return"
    /\ UNCHANGED <<layout, text_bbox, layout_bbox>>

IsLikelySpanningBoxCall ==
    /\ pc = "call"
    /\ result' = IsLikelySpanningBox(text_bbox, layout_bbox)
    /\ return_line' = IF layout_bbox[3] - layout_bbox[1] = 0 THEN 44
                      ELSE IF result' THEN
                          (IF RatioAboveThreshold(text_bbox[3] - text_bbox[1],
                                                  layout_bbox[3] - layout_bbox[1])
                           THEN 48 ELSE 52)
                      ELSE 54
    /\ pc' = "return"
    /\ UNCHANGED <<layout, text_bbox, layout_bbox, raised,
                   non_spanning_boxes, left_column_boxes, right_column_boxes>>

(***************************************************************************)
(* Inputs.                                                                 *)
(***************************************************************************)
MaxBoxes == 4

\* text boxes of a page region about 1100 px wide: column boxes on the left
\* and on the right, a centred box, and two boxes that span the region
TextBoxes ==
    << <<100, 50, 450, 750>>,     \* left column, full height
       <<550, 50, 900, 750>>,     \* right column, full height
       <<100, 50, 450, 300>>,     \* left column, upper part
       <<550, 500, 900, 750>>,    \* right column, lower part
       <<550, 200, 900, 500>>,    \* right column, middle part
       <<350, 50, 650, 750>>,     \* centred box
       <<320, 50, 1030, 750>>,    \* 710 px wide: spanning by the absolute rule
       <<50, 50, 950, 100>> >>    \* 900 px wide: spanning by the ratio rule

TextBoxSet == {TextBoxes[i] : i \in DOMAIN TextBoxes}

LayoutBoxes ==
    { <<0, 0, 1100, 800>>, <<100, 0, 1200, 900>>,
      <<0, 0, 1100, 299>>, <<0, 0, 199, 800>> }

NoDict == [k \in {} |-> <<>>]

\* the dicts a page can hold: with both keys, with one of them, with none
IsLayout(l) ==
    \/ \E lb \in LayoutBoxes, n \in 0..MaxBoxes : \E t \in [1..n -> TextBoxSet] :
           l = [bbox_layout |-> lb, bbox_text |-> t]
    \/ \E n \in 0..MaxBoxes : \E t \in [1..n -> TextBoxSet] :
           l = [bbox_text |-> t]
    \/ \E lb \in LayoutBoxes : l = [bbox_layout |-> lb]
    \/ l = NoDict

NoCallYet ==
    /\ pc = "call"
    /\ result = FALSE
    /\ raised = FALSE
    /\ return_line = 0
    /\ non_spanning_boxes = <<>>
    /\ left_column_boxes = <<>>
    /\ right_column_boxes = <<>>

Init ==
    /\ IsLayout(layout)
    /\ text_bbox = <<>>
    /\ layout_bbox = <<>>
    /\ NoCallYet

Next == DetectTwoColumnsCall

Spec == Init /\ [][Next]_vars

\* Layouts that mix column boxes with spanning boxes, in the two layouts
\* large enough to be classified.
MaxMixedBoxes == 5

MixedBoxSet == {TextBoxes[i] : i \in {1, 2, 3, 6, 7, 8}}

LargeLayoutBoxes == { <<0, 0, 1100, 800>>, <<100, 0, 1200, 900>> }

InitWithSpanning ==
    /\ \E lb \in LargeLayoutBoxes, n \in 0..MaxMixedBoxes :
           \E t \in [1..n -> MixedBoxSet] :
               layout = [bbox_layout |-> lb, bbox_text |-> t]
    /\ text_bbox = <<>>
    /\ layout_bbox = <<>>
    /\ NoCallYet

SpecWithSpanning == InitWithSpanning /\ [][Next]_vars

\* One layout per multiset of text boxes (the boxes in the order of
\* TextBoxes); the properties checked on it range over its reorderings.
MaxPermutedBoxes == 5

InitPermuted ==
    /\ \E lb \in LargeLayoutBoxes, n \in 0..MaxPermutedBoxes :
           \E t \in [1..n -> DOMAIN TextBoxes] :
               /\ \A i \in 1..(n - 1) : t[i] <= t[i + 1]
               /\ layout = [bbox_layout |-> lb,
                            bbox_text |-> [i \in 1..n |-> TextBoxes[t[i]]]]
    /\ text_bbox = <<>>
    /\ layout_bbox = <<>>
    /\ NoCallYet

SpecPermuted == InitPermuted /\ [][Next]_vars

\* Calls of _is_likely_spanning_box on its own: box widths around both
\* thresholds, layout widths from zero upwards.
SpanningBoxWidths == {0, 100, 140, 700, 701, 770, 771, 900}

SpanningLayoutWidths == {0, 199, 200, 1000, 1100}

InitSpanningBox ==
    /\ \E x \in {0, 50}, w \in SpanningBoxWidths : text_bbox = <<x, 50, x + w, 100>>
    /\ \E x \in {0, 100}, w \in SpanningLayoutWidths : layout_bbox = <<x, 0, x + w, 800>>
    /\ layout = NoDict
    /\ NoCallYet

NextSpanningBox == IsLikelySpanningBoxCall

SpecSpanningBox == InitSpanningBox /\ [][NextSpanningBox]_vars

\* Scenario A: layout [0,0,1000,800]; five left boxes with x_start in
\* [50,200] and x_end in [400,480], five right boxes with x_start in
\* [520,600] and x_end in [900,950]; each group reaches from y = 50 to
\* y = 750.  The x-ranges are taken at their ends, the boxes of a group as
\* a multiset, in three vertical arrangements and two list orders.
ScenarioLayoutBox == <<0, 0, 1000, 800>>

ScenarioLeftX == << <<50, 400>>, <<50, 480>>, <<200, 400>>, <<200, 480>> >>

ScenarioRightX == << <<520, 900>>, <<520, 950>>, <<600, 900>>, <<600, 950>> >>

ScenarioY ==
    { << <<50, 190>>, <<190, 330>>, <<330, 470>>, <<470, 610>>, <<610, 750>> >>,
      << <<50, 750>>, <<50, 750>>, <<50, 750>>, <<50, 750>>, <<50, 750>> >>,
      << <<700, 750>>, <<300, 400>>, <<50, 60>>, <<300, 400>>, <<300, 400>> >> }

ScenarioGroup(xs, pick, ys) ==
    [i \in 1..5 |-> <<xs[pick[i]][1], ys[i][1], xs[pick[i]][2], ys[i][2]>>]

Interleaved(a, b) ==
    [i \in 1..(Len(a) + Len(b)) |->
        IF i % 2 = 1 THEN a[(i + 1) \div 2] ELSE b[i \div 2]]

InitScenarioA ==
    /\ \E pl \in [1..5 -> 1..4], pr \in [1..5 -> 1..4] :
           /\ \A i \in 1..4 : pl[i] <= pl[i + 1] /\ pr[i] <= pr[i + 1]
           /\ \E yl \in ScenarioY, yr \in ScenarioY :
                  LET left == ScenarioGroup(ScenarioLeftX, pl, yl)
                      right == ScenarioGroup(ScenarioRightX, pr, yr)
                  IN  \E t \in {left \o right, Interleaved(right, left)} :
                          layout = [bbox_layout |-> ScenarioLayoutBox, bbox_text |-> t]
    /\ text_bbox = <<>>
    /\ layout_bbox = <<>>
    /\ NoCallYet

SpecScenarioA == InitScenarioA /\ [][Next]_vars

\* Scenario D: layout [0,0,1000,800]; ten boxes whose x-centers follow one
\* another at 2 px, with at most one step of 3 px; each box is 2 px or
\* 500 px wide; all boxes full height, or in rows.
DenseHalfWidths == {1, 250}

DenseY ==
    { [i \in 1..10 |-> <<50, 750>>],
      [i \in 1..10 |-> <<50 + 70 * (i - 1), 50 + 70 * i>>] }

\* x-center of the i-th box; the step after box number `wide` is 3 px
DenseCenter(i, wide) ==
    480 + 2 * (i - 1) + (IF wide # 0 /\ i > wide THEN 1 ELSE 0)

InitScenarioD ==
    /\ \E wide \in 0..9, hw \in [1..10 -> DenseHalfWidths], ys \in DenseY :
           layout = [bbox_layout |-> ScenarioLayoutBox,
                     bbox_text |-> [i \in 1..10 |->
                         <<DenseCenter(i, wide) - hw[i], ys[i][1],
                           DenseCenter(i, wide) + hw[i], ys[i][2]>>]]
    /\ text_bbox = <<>>
    /\ layout_bbox = <<>>
    /\ NoCallYet

SpecScenarioD == InitScenarioD /\ [][Next]_vars

(***************************************************************************)
(* Vocabulary of the properties.                                           *)
(***************************************************************************)
Returned == pc = "return"

HasLayoutBox(l) == "bbox_layout" \in DOMAIN l /\ Len(l.bbox_layout) = 4
HasTextBoxes(l) == "bbox_text" \in DOMAIN l
HasGeometry(l) == HasLayoutBox(l) /\ HasTextBoxes(l)

Width(b) == b[3] - b[1]
Height(b) == b[4] - b[2]

\* "width > 0.7 x layout width or width > 700 px"
WiderThanColumn(b, lb) == 10 * Width(b) > 7 * Width(lb) \/ Width(b) > 700

RemoveAt(s, i) == SubSeq(s, 1, i - 1) \o SubSeq(s, i + 1, Len(s))

Elements(s) == {s[i] : i \in DOMAIN s}

\* the number of text boxes the spanning filter does not flag
NonSpanningCount(l) ==
    Cardinality({i \in DOMAIN l.bbox_text :
                    ~IsLikelySpanningBox(l.bbox_text[i], l.bbox_layout)})

\* C1: a layout whose bbox is less than 300 high or less than 200 wide is
\* classified false, whatever its text boxes are.
C1_TooSmallLayoutIsFalse ==
    (Returned /\ HasLayoutBox(layout)
        /\ (Height(layout.bbox_layout) < 300 \/ Width(layout.bbox_layout) < 200))
    => (result = FALSE /\ ~raised)

\* a too-small layout whose boxes classify true inside a large enough layout
C1_Witness ==
    /\ Returned /\ HasGeometry(layout)
    /\ Height(layout.bbox_layout) < 300
    /\ return_line = 80 /\ result = FALSE
    /\ DetectTwoColumns([layout EXCEPT !.bbox_layout = <<0, 0, 1100, 800>>]).value

\* C2: a layout with three or fewer non-spanning text boxes is classified
\* false, however many spanning boxes it holds besides.
C2_FewNonSpanningIsFalse ==
    (Returned /\ HasGeometry(layout) /\ NonSpanningCount(layout) <= 3)
    => (result = FALSE /\ ~raised)

\* four boxes in a large layout, one of them spanning
C2_Witness ==
    /\ Returned /\ HasGeometry(layout)
    /\ Len(layout.bbox_text) >= 4
    /\ NonSpanningCount(layout) = 3
    /\ return_line = 89 /\ result = FALSE

\* C3: without 'bbox_layout', without 'bbox_text', or with an empty text-box
\* list, the call returns false and raises nothing.
C3_MissingInputIsFalse ==
    (Returned /\ (\/ "bbox_layout" \notin DOMAIN layout
                  \/ "bbox_text" \notin DOMAIN layout
                  \/ layout.bbox_text = <<>>))
    => (result = FALSE /\ ~raised)

\* a large layout bbox without any 'bbox_text'
C3_Witness ==
    /\ Returned /\ HasLayoutBox(layout) /\ ~HasTextBoxes(layout)
    /\ ~LayoutTooSmall(layout.bbox_layout)
    /\ result = FALSE /\ ~raised

\* C4: a box wider than 0.7 x the layout width or wider than 700 px is in
\* neither column group, and taking such a box out of the text boxes, from
\* any position, changes neither the groups of the other boxes nor the verdict.
C4_SpanningBoxExcluded ==
    (Returned /\ HasGeometry(layout))
    => /\ \A b \in Elements(left_column_boxes) \cup Elements(right_column_boxes) :
              ~WiderThanColumn(b, layout.bbox_layout)
       /\ \A i \in DOMAIN layout.bbox_text :
              WiderThanColumn(layout.bbox_text[i], layout.bbox_layout)
              => LET r == DetectTwoColumns(
                              [layout EXCEPT !.bbox_text = RemoveAt(@, i)])
                 IN  /\ r.value = result
                     /\ r.raised = raised
                     /\ r.left_column_boxes = left_column_boxes
                     /\ r.right_column_boxes = right_column_boxes

\* a two-column verdict for a layout that also holds a spanning box
C4_Witness ==
    /\ Returned /\ HasGeometry(layout)
    /\ result = TRUE
    /\ \E i \in DOMAIN layout.bbox_text :
           WiderThanColumn(layout.bbox_text[i], layout.bbox_layout)

\* the layout with every text box mirrored about the vertical centre line of
\* the layout bbox
MirrorBox(b, lb) == <<lb[1] + lb[3] - b[3], b[2], lb[1] + lb[3] - b[1], b[4]>>

Mirror(l) ==
    [l EXCEPT !.bbox_text =
        [i \in DOMAIN l.bbox_text |-> MirrorBox(l.bbox_text[i], l.bbox_layout)]]

\* the gaps of the central band that have the width of the widest of them
MaximalGutters(l) ==
    LET lb == l.bbox_layout
        pg == PotentialGutters(
                  SortedBoxesByCx(NonSpanningBoxes(l.bbox_text, lb)), lb)
    IN  {i \in DOMAIN pg :
            \A j \in DOMAIN pg :
                pg[j].gap_width_centers2 <= pg[i].gap_width_centers2}

\* C5 as stated: mirroring every text box about the layout's vertical centre
\* line never changes the verdict, ties between maximal gaps included.
C5_MirrorSymmetryAsClaimed ==
    (Returned /\ HasGeometry(layout))
    => DetectTwoColumns(Mirror(layout)).value = result

\* C5, amended: mirroring never changes the verdict of a layout in which at
\* most one gap of the central band has the maximal width.
C5_MirrorSymmetryUniqueGutter ==
    (Returned /\ HasGeometry(layout) /\ Cardinality(MaximalGutters(layout)) <= 1)
    => DetectTwoColumns(Mirror(layout)).value = result

\* a two-column verdict, with a single widest gap, in the layout whose bbox
\* does not start at x = 0; the mirror image has the groups swapped
C5_Witness ==
    /\ Returned /\ HasGeometry(layout)
    /\ layout.bbox_layout[1] # 0
    /\ Cardinality(MaximalGutters(layout)) = 1
    /\ result = TRUE
    /\ LET m == DetectTwoColumns(Mirror(layout))
       IN  /\ m.value = TRUE
           /\ Elements(m.left_column_boxes) =
                  {MirrorBox(b, layout.bbox_layout) : b \in Elements(right_column_boxes)}

\* vertical extent of a group and the overlap of two extents
Top(boxes) == MinOf(Column(boxes, 2))
Bottom(boxes) == MaxOf(Column(boxes, 4))
ExtentOverlap(left, right) ==
    Max2(0, Min2(Bottom(left), Bottom(right)) - Max2(Top(left), Top(right)))
ShorterExtent(left, right) ==
    Min2(Bottom(left) - Top(left), Bottom(right) - Top(right))

\* C6: when the vertical overlap of the two groups is less than 0.4 of the
\* shorter group's height, or there is no overlap at all, the verdict is false.
C6_VerticalCohesion ==
    (Returned /\ left_column_boxes # <<>> /\ right_column_boxes # <<>>
        /\ (\/ ExtentOverlap(left_column_boxes, right_column_boxes) = 0
            \/ 5 * ExtentOverlap(left_column_boxes, right_column_boxes)
                   < 2 * ShorterExtent(left_column_boxes, right_column_boxes)))
    => result = FALSE

\* groups that are populated, separated and high enough, and overlap by less
\* than 0.4 of the shorter one: left group y 50..300, right group y 500..750
C6_Witness ==
    /\ Returned /\ return_line = 175 /\ result = FALSE
    /\ Top(left_column_boxes) = 50 /\ Bottom(left_column_boxes) = 300
    /\ Top(right_column_boxes) = 500 /\ Bottom(right_column_boxes) = 750

\* the reorderings of a list of n items
Reorderings == [n \in 0..MaxPermutedBoxes |-> Permutations(1..n)]

Reordered(l, p) ==
    [l EXCEPT !.bbox_text = [i \in DOMAIN l.bbox_text |-> l.bbox_text[p[i]]]]

\* C10: every reordering of 'bbox_text' gives the same verdict and the same
\* left and right groups (as sets), boxes with equal x-centers included.
C10_OrderIndependence ==
    (Returned /\ HasGeometry(layout))
    => \A p \in Reorderings[Len(layout.bbox_text)] :
           LET r == DetectTwoColumns(Reordered(layout, p))
           IN  /\ r.value = result
               /\ Elements(r.left_column_boxes) = Elements(left_column_boxes)
               /\ Elements(r.right_column_boxes) = Elements(right_column_boxes)

\* a two-column verdict with two different boxes of one x-center in a group
C10_Witness ==
    /\ Returned /\ result = TRUE
    /\ \E i, j \in DOMAIN left_column_boxes :
           /\ left_column_boxes[i] # left_column_boxes[j]
           /\ Cx2(left_column_boxes[i]) = Cx2(left_column_boxes[j])

\* C7 (scenario D): ten non-spanning boxes in a [0,0,1000,800] layout, no gap
\* between consecutive sorted x-centers with its midpoint in [250,750] wider
\* than a few (3) pixels: the verdict is false, wherever the boxes sit
\* vertically.
DenselySpread(l) ==
    LET srt == SortedBoxesByCx(l.bbox_text)
    IN  /\ l.bbox_layout = <<0, 0, 1000, 800>>
        /\ Len(l.bbox_text) = 10
        /\ \A i \in 1..10 : ~WiderThanColumn(l.bbox_text[i], l.bbox_layout)
        /\ \A i \in 1..9 :
               (1000 <= Cx2(srt[i]) + Cx2(srt[i + 1])
                   /\ Cx2(srt[i]) + Cx2(srt[i + 1]) <= 3000)
               => Cx2(srt[i + 1]) - Cx2(srt[i]) <= 2 * 3

C7_NoRealGutterAsClaimed ==
    (Returned /\ HasGeometry(layout) /\ DenselySpread(layout)) => result = FALSE

\* C8 (scenario A): five left boxes with x_start in [50,200], x_end in
\* [400,480], five right boxes with x_start in [520,600], x_end in [900,950],
\* each group reaching from y = 50 to y = 750, in a [0,0,1000,800] layout:
\* the verdict is true.
InLeftRange(b) == 50 <= b[1] /\ b[1] <= 200 /\ 400 <= b[3] /\ b[3] <= 480
InRightRange(b) == 520 <= b[1] /\ b[1] <= 600 /\ 900 <= b[3] /\ b[3] <= 950

ReachesFullHeight(group) ==
    /\ Len(group) = 5
    /\ \A i \in 1..5 : 50 <= group[i][2] /\ group[i][2] <= group[i][4]
                           /\ group[i][4] <= 750
    /\ \E i \in 1..5 : group[i][2] = 50
    /\ \E i \in 1..5 : group[i][4] = 750

ClearTwoColumns(l) ==
    /\ l.bbox_layout = <<0, 0, 1000, 800>>
    /\ Len(l.bbox_text) = 10
    /\ ReachesFullHeight(SelectSeq(l.bbox_text, InLeftRange))
    /\ ReachesFullHeight(SelectSeq(l.bbox_text, InRightRange))

C8_ScenarioAIsTwoColumn ==
    (Returned /\ HasGeometry(layout) /\ ClearTwoColumns(layout))
    => (result = TRUE /\ ~raised)

\* scenario A at the ends of its ranges: the widest left box next to the
\* widest right box, in text boxes that alternate between the columns
C8_Witness ==
    /\ Returned /\ HasGeometry(layout) /\ ClearTwoColumns(layout)
    /\ result = TRUE /\ return_line = 177
    /\ Len(left_column_boxes) = 5 /\ Len(right_column_boxes) = 5
    /\ \E i \in 1..5 : left_column_boxes[i][3] = 480
    /\ \E i \in 1..5 : right_column_boxes[i][1] = 520
    /\ InRightRange(layout.bbox_text[1]) /\ InLeftRange(layout.bbox_text[2])

\* C9: the spanning predicate is true exactly when box width / layout width
\* > 0.7 or box width > 700; for a layout of width 0 the ratio rule is
\* skipped and the absolute rule still applies.
C9_SpanningPredicateAsClaimed ==
    (Returned /\ text_bbox # <<>>)
    => (result <=> (\/ (Width(layout_bbox) # 0
                           /\ 10 * Width(text_bbox) > 7 * Width(layout_bbox))
                    \/ Width(text_bbox) > 700))

====
